---- MODULE Spec2Model ----
(***************************************************************************)
(* A model of the Sphinx packet core of this repository: the payload onion *)
(* (src/src/payload/mod.rs), the construction of one routing-header layer  *)
(* (src/src/header/routing/nodes.rs), the unwrapping of one header layer   *)
(* (src/src/header/unwrap.rs) and the primitives (src/src/crypto.rs).      *)
(*                                                                         *)
(* Bytes are naturals below 256.  Keys are identified by small naturals.   *)
(* The sizes are those of the crate scaled down to a security parameter of *)
(* one byte, so that every buffer can be enumerated.  The external         *)
(* primitives (AES-128-CTR, HMAC-SHA-256, Lioness) are replaced by small   *)
(* deterministic functions of the same shape: a keystream that depends on  *)
(* key and position, a keyed hash of the whole input, and a four-round     *)
(* unbalanced Feistel network whose encrypt and decrypt run the rounds in  *)
(* opposite orders.                                                        *)
(***************************************************************************)
EXTENDS Integers, Sequences, FiniteSets, TLC

VARIABLES
    session,        \* what the caller is working on: "idle", "payload", "header", "mac_check"
    payload,        \* the Payload value (or error, or panic) the caller holds
    pargs,          \* the arguments of the call that created `payload`
    unwrapKeys,     \* the keys of the Payload::unwrap calls applied to `payload`, in order
    routing,        \* result of RoutingInformation::new
    encrypted,      \* result of RoutingInformation::encrypt
    encapsulated,   \* result of EncryptedRoutingInformation::encapsulate_with_mac
    hargs,          \* the arguments of the header-layer calls
    uargs,          \* the arguments of unwrap_routing_information
    unwrapped_routing_info, \* the local of that name in unwrap_routing_information
    uout,           \* what unwrap_routing_information returned
    macCheck,       \* the arguments and the result of check_integrity_mac
    nodeAddressLength \* the length of NodeAddressBytes in this build

vars == <<session, payload, pargs, unwrapKeys, routing, encrypted, encapsulated,
          hargs, uargs, unwrapped_routing_info, uout, macCheck, nodeAddressLength>>

payloadVars == <<payload, pargs, unwrapKeys>>
headerVars == <<routing, encrypted, encapsulated, hargs, uargs,
                unwrapped_routing_info, uout, macCheck>>

-----------------------------------------------------------------------------
(* Bounds of the model *)

NumKeys == 2        \* keys are 1..NumKeys
MaxInByte == 1      \* the bytes of enumerated inputs are 0..MaxInByte
MaxKeys == 3        \* longest payload key list (route length)
MaxExtra == 1       \* how far past a size limit the enumerated inputs go

Keys == 1..NumKeys
InBytes == 0..MaxInByte

-----------------------------------------------------------------------------
(* Sizes (crate::constants, crate::header::routing) *)

SECURITY_PARAMETER == 1
MAX_PATH_LENGTH == 2
ROUTING_INFO_SIZE == (2 * MAX_PATH_LENGTH + 1) * SECURITY_PARAMETER
ENCRYPTED_ROUTING_INFO_SIZE == ROUTING_INFO_SIZE
TRUNCATED_ROUTING_INFO_SIZE == ENCRYPTED_ROUTING_INFO_SIZE - 3 * SECURITY_PARAMETER
STREAM_CIPHER_OUTPUT_LENGTH == ROUTING_INFO_SIZE + 3 * SECURITY_PARAMETER
HEADER_INTEGRITY_MAC_SIZE == SECURITY_PARAMETER
INTEGRITY_MAC_SIZE == HEADER_INTEGRITY_MAC_SIZE
DESTINATION_ADDRESS_LENGTH == SECURITY_PARAMETER
\* The node address as spec section 3 sizes it.
SPEC_ADDR_SIZE == SECURITY_PARAMETER
\* The node address as the assertion of RoutingInformation::encrypt needs it:
\* address + mac + truncated routing info = ENCRYPTED_ROUTING_INFO_SIZE.
NODE_ADDRESS_LENGTH ==
    ENCRYPTED_ROUTING_INFO_SIZE - TRUNCATED_ROUTING_INFO_SIZE - HEADER_INTEGRITY_MAC_SIZE
PAYLOAD_SIZE == 4
HMAC_OUTPUT_SIZE == 2 * SECURITY_PARAMETER

\* usize arithmetic: the width is scaled to 16 bits.
USIZE_MODULUS == 2 ^ 16
ISIZE_MAX == (USIZE_MODULUS \div 2) - 1

-----------------------------------------------------------------------------
(* Byte strings *)

Min(a, b) == IF a < b THEN a ELSE b

zeros(n) == [i \in 1..n |-> 0]

SeqsOfLen(S, n) == [1..n -> S]

SeqsUpTo(S, n) == UNION {SeqsOfLen(S, k) : k \in 0..n}

RECURSIVE BitXor(_, _)
BitXor(a, b) ==
    IF a = 0 THEN b
    ELSE IF b = 0 THEN a
    ELSE ((a + b) % 2) + 2 * BitXor(a \div 2, b \div 2)

\* utils::bytes::xor: the bytewise exclusive or of two buffers.
xor(a, b) == [i \in 1..Min(Len(a), Len(b)) |-> BitXor(a[i], b[i])]

RECURSIVE HashFold(_, _, _)
HashFold(h, data, i) ==
    IF i > Len(data) THEN h
    ELSE HashFold((h * 33 + data[i] * 7 + i) % 251, data, i + 1)

-----------------------------------------------------------------------------
(* Primitives (src/src/crypto.rs) *)

STREAM_CIPHER_INIT_VECTOR == 0

\* One keystream byte of the counter-mode cipher under `key`, at position i.
KeystreamByte(key, iv, i) == (key * key * 31 + 97 * i * (key + 1) + 5 * i * i + 13 * key + iv + 1) % 256

generate_pseudorandom_bytes(key, iv, length) ==
    [i \in 1..length |-> KeystreamByte(key, iv, i)]

compute_keyed_hmac(key, data) ==
    [j \in 1..HMAC_OUTPUT_SIZE |-> (HashFold(key * 7 + j, data, 1) * (j + 1) + key * 3) % 256]

-----------------------------------------------------------------------------
(* The wide-block cipher used by the payload (Lioness) *)

LIONESS_LEFT_SIZE == 1

LionessSubKey(key, j) ==
    [i \in 1..LIONESS_LEFT_SIZE |-> (key * (j + 2) * 41 + i * 3 + j * 59) % 256]

\* The stream-cipher half of a round: n bytes seeded by the left part.
LionessS(seed, n) ==
    [i \in 1..n |-> (HashFold(17, seed, 1) * 53 + i * 101 + 19) % 256]

\* The keyed-hash half of a round: a digest of the right part.
LionessH(key, j, right) ==
    [i \in 1..LIONESS_LEFT_SIZE |-> (HashFold(key * 5 + j + i, right, 1) + 3 * j) % 256]

LionessRoundR(key, j, b) ==
    LET l == SubSeq(b, 1, LIONESS_LEFT_SIZE)
        r == SubSeq(b, LIONESS_LEFT_SIZE + 1, Len(b))
    IN  l \o xor(r, LionessS(xor(l, LionessSubKey(key, j)), Len(r)))

LionessRoundL(key, j, b) ==
    LET l == SubSeq(b, 1, LIONESS_LEFT_SIZE)
        r == SubSeq(b, LIONESS_LEFT_SIZE + 1, Len(b))
    IN  xor(l, LionessH(key, j, r)) \o r

LionessEncrypt(key, b) ==
    LionessRoundL(key, 4, LionessRoundR(key, 3, LionessRoundL(key, 2, LionessRoundR(key, 1, b))))

LionessDecrypt(key, b) ==
    LionessRoundR(key, 1, LionessRoundL(key, 2, LionessRoundR(key, 3, LionessRoundL(key, 4, b))))

-----------------------------------------------------------------------------
(* Payload (src/src/payload/mod.rs) *)

NoPayload == [status |-> "None", content |-> <<>>, error |-> "none"]
OkPayload(c) == [status |-> "Ok", content |-> c, error |-> "none"]
ErrPayload(e) == [status |-> "Err", content |-> <<>>, error |-> e]
PanicPayload(m) == [status |-> "Panic", content |-> <<>>, error |-> m]

\* PAYLOAD_SIZE - SECURITY_PARAMETER - destination_address_length - message_length
\* in usize: a debug build panics on underflow, a release build wraps.
padding_length(message, destination_address, profile) ==
    LET raw == PAYLOAD_SIZE - SECURITY_PARAMETER - Len(destination_address) - Len(message)
    IN  IF raw >= 0 THEN raw
        ELSE IF profile = "debug" THEN -1
        ELSE raw + USIZE_MODULUS

encrypt_final_layer(message, final_payload_key, destination_address, profile) ==
    LET n == padding_length(message, destination_address, profile)
    IN  IF n < 0 THEN PanicPayload("attempt to subtract with overflow")
        ELSE IF n > ISIZE_MAX THEN PanicPayload("capacity overflow")
        ELSE OkPayload(LionessEncrypt(final_payload_key,
                 zeros(SECURITY_PARAMETER) \o destination_address \o message \o zeros(n)))

add_layer_of_encryption(current_layer, payload_enc_key) ==
    OkPayload(LionessEncrypt(payload_enc_key, current_layer.content))

\* fold over route_payload_keys.iter().take(len - 1).rev()
RECURSIVE FoldOuterLayers(_, _, _)
FoldOuterLayers(layer, keys, i) ==
    IF i < 1 THEN layer
    ELSE FoldOuterLayers(add_layer_of_encryption(layer, keys[i]), keys, i - 1)

\* the same fold without .rev()
RECURSIVE FoldOuterLayersForward(_, _, _)
FoldOuterLayersForward(layer, keys, i) ==
    IF i > Len(keys) - 1 THEN layer
    ELSE FoldOuterLayersForward(add_layer_of_encryption(layer, keys[i]), keys, i + 1)

\* route_payload_keys.len() - 1 in usize: on an empty key list a debug build
\* panics on underflow (-1 here), a release build wraps.
outer_layer_count(route_payload_keys, profile) ==
    LET raw == Len(route_payload_keys) - 1
    IN  IF raw >= 0 THEN raw
        ELSE IF profile = "debug" THEN -1
        ELSE raw + USIZE_MODULUS

encrypt_outer_layers_no_rev(final_payload_layer, route_payload_keys, profile) ==
    IF outer_layer_count(route_payload_keys, profile) < 0
    THEN PanicPayload("attempt to subtract with overflow")
    ELSE FoldOuterLayersForward(final_payload_layer, route_payload_keys, 1)

\* the same fold without .take(len - 1): the last key is used twice
encrypt_outer_layers_all_keys(final_payload_layer, route_payload_keys, profile) ==
    FoldOuterLayers(final_payload_layer, route_payload_keys, Len(route_payload_keys))

\* .take(n) yields at most the keys there are.
encrypt_outer_layers(final_payload_layer, route_payload_keys, profile) ==
    LET n == outer_layer_count(route_payload_keys, profile)
    IN  IF n < 0 THEN PanicPayload("attempt to subtract with overflow")
        ELSE FoldOuterLayers(final_payload_layer, route_payload_keys,
                             Min(n, Len(route_payload_keys)))

encapsulate_message(plaintext_message, payload_keys, destination_address, profile) ==
    IF Len(payload_keys) = 0 THEN PanicPayload("The keys should be already initialized")
    ELSE LET final_payload_layer ==
                 encrypt_final_layer(plaintext_message, payload_keys[Len(payload_keys)],
                                     destination_address, profile)
         IN  IF final_payload_layer.status # "Ok" THEN final_payload_layer
             ELSE encrypt_outer_layers(final_payload_layer, payload_keys, profile)

unwrap(self, payload_key) == OkPayload(LionessDecrypt(payload_key, self.content))

from_bytes_exact(bytes) ==
    IF Len(bytes) # PAYLOAD_SIZE THEN ErrPayload("InvalidPayloadLengthError")
    ELSE OkPayload(bytes)

from_bytes(bytes) ==
    IF Len(bytes) < PAYLOAD_SIZE THEN ErrPayload("InvalidPayloadLengthError")
    ELSE OkPayload(bytes)

-----------------------------------------------------------------------------
(* One layer of the routing header (src/src/header/routing/nodes.rs) *)

ForwardHop(a) == [tag |-> "ForwardHop", address |-> a]
FinalHop(d) == [tag |-> "FinalHop", address |-> d]

NoRouting == [status |-> "None", node_address |-> <<>>, header_integrity_mac |-> <<>>,
              next_routing_information |-> <<>>, error |-> "none"]
OkRouting(a, m, n) == [status |-> "Ok", node_address |-> a, header_integrity_mac |-> m,
                       next_routing_information |-> n, error |-> "none"]
ErrRouting(e) == [status |-> "Err", node_address |-> <<>>, header_integrity_mac |-> <<>>,
                  next_routing_information |-> <<>>, error |-> e]

NoEncrypted == [status |-> "None", value |-> <<>>, error |-> "none"]
OkEncrypted(v) == [status |-> "Ok", value |-> v, error |-> "none"]
PanicEncrypted(m) == [status |-> "Panic", value |-> <<>>, error |-> m]

NoEncapsulated == [status |-> "None", enc_routing_information |-> <<>>, integrity_mac |-> <<>>]
Encapsulated(e, m) == [status |-> "Ok", enc_routing_information |-> e, integrity_mac |-> m]

\* HeaderIntegrityMac::compute: the first HEADER_INTEGRITY_MAC_SIZE bytes of the keyed hash.
HeaderIntegrityMac_compute(key, data) ==
    SubSeq(compute_keyed_hmac(key, data), 1, HEADER_INTEGRITY_MAC_SIZE)

\* truncate that keeps one byte too few
truncate_short(value) == SubSeq(value, 1, TRUNCATED_ROUTING_INFO_SIZE - 1)

\* truncate that keeps the tail instead of the head
truncate_tail(value) ==
    SubSeq(value, Len(value) - TRUNCATED_ROUTING_INFO_SIZE + 1, Len(value))

truncate(value) == SubSeq(value, 1, TRUNCATED_ROUTING_INFO_SIZE)

\* new that takes the address of any route element
RoutingInformation_new_any(route_element, next_encapsulated_routing_information) ==
    OkRouting(route_element.address,
              next_encapsulated_routing_information.integrity_mac,
              truncate(next_encapsulated_routing_information.enc_routing_information))

RoutingInformation_new(route_element, next_encapsulated_routing_information) ==
    IF route_element.tag = "ForwardHop"
    THEN OkRouting(route_element.address,
                   next_encapsulated_routing_information.integrity_mac,
                   truncate(next_encapsulated_routing_information.enc_routing_information))
    ELSE ErrRouting("IsNotForwardHopError")

concatenate_components(self) ==
    self.node_address \o self.header_integrity_mac \o self.next_routing_information

encrypt(self, key) ==
    LET routing_info_components == concatenate_components(self)
        pseudorandom_bytes ==
            generate_pseudorandom_bytes(key, STREAM_CIPHER_INIT_VECTOR,
                                        STREAM_CIPHER_OUTPUT_LENGTH)
    IN  IF Len(routing_info_components) # ENCRYPTED_ROUTING_INFO_SIZE
        THEN PanicEncrypted("assertion failed: left == right")
        ELSE OkEncrypted(xor(routing_info_components,
                             SubSeq(pseudorandom_bytes, 1, ENCRYPTED_ROUTING_INFO_SIZE)))

encapsulate_with_mac(self, key) ==
    Encapsulated(self.value, HeaderIntegrityMac_compute(key, self.value))

-----------------------------------------------------------------------------
(* Unwrapping one layer of the routing header (src/src/header/unwrap.rs) *)

generate_routing_info_integrity_mac(key, data) ==
    SubSeq(compute_keyed_hmac(key, data), 1, INTEGRITY_MAC_SIZE)

\* a check that compares the lengths only
check_integrity_mac_length_only(integrity_mac, integrity_mac_key, enc_routing_info) ==
    LET recomputed_integrity_mac ==
            generate_routing_info_integrity_mac(integrity_mac_key, enc_routing_info)
    IN  IF Len(integrity_mac) # Len(recomputed_integrity_mac) THEN FALSE ELSE TRUE

check_integrity_mac(integrity_mac, integrity_mac_key, enc_routing_info) ==
    LET recomputed_integrity_mac ==
            generate_routing_info_integrity_mac(integrity_mac_key, enc_routing_info)
    IN  IF integrity_mac # recomputed_integrity_mac THEN FALSE ELSE TRUE

\* padding with one-bytes instead of zero-bytes
add_one_padding_to_encrypted_routing_information(enc_routing_info) ==
    enc_routing_info \o [i \in 1..(3 * SECURITY_PARAMETER) |-> 1]

add_zero_padding_to_encrypted_routing_information(enc_routing_info) ==
    enc_routing_info \o zeros(3 * SECURITY_PARAMETER)

OkPadded(v) == [status |-> "Ok", error |-> "none", value |-> v]
PanicPadded(m) == [status |-> "Panic", error |-> m, value |-> <<>>]

\* decrypted_routing_info.copy_from_slice(..): the destination is an array of
\* ROUTING_INFO_SIZE + 3 * SECURITY_PARAMETER bytes, and a source of another
\* length panics.
copy_to_padded_routing_information(decrypted_routing_info_vec) ==
    IF Len(decrypted_routing_info_vec) # ROUTING_INFO_SIZE + 3 * SECURITY_PARAMETER
    THEN PanicPadded("copy_from_slice: source slice length ("
                         \o ToString(Len(decrypted_routing_info_vec))
                         \o ") does not match destination slice length ("
                         \o ToString(ROUTING_INFO_SIZE + 3 * SECURITY_PARAMETER) \o ")")
    ELSE OkPadded(decrypted_routing_info_vec)

\* decryption under a keystream generated with another init vector
decrypt_padded_routing_info_other_iv(key, padded_routing_info) ==
    LET pseudorandom_bytes ==
            generate_pseudorandom_bytes(key, STREAM_CIPHER_INIT_VECTOR + 1,
                                        STREAM_CIPHER_OUTPUT_LENGTH)
    IN  copy_to_padded_routing_information(xor(padded_routing_info, pseudorandom_bytes))

\* decryption that leaves the bytes past ROUTING_INFO_SIZE as they arrived
decrypt_padded_routing_info_prefix_only(key, padded_routing_info) ==
    LET pseudorandom_bytes ==
            generate_pseudorandom_bytes(key, STREAM_CIPHER_INIT_VECTOR,
                                        ROUTING_INFO_SIZE)
    IN  copy_to_padded_routing_information(
            xor(padded_routing_info, pseudorandom_bytes)
                \o SubSeq(padded_routing_info, ROUTING_INFO_SIZE + 1,
                          Len(padded_routing_info)))

decrypt_padded_routing_info(key, padded_routing_info) ==
    LET pseudorandom_bytes ==
            generate_pseudorandom_bytes(key, STREAM_CIPHER_INIT_VECTOR,
                                        STREAM_CIPHER_OUTPUT_LENGTH)
        decrypted_routing_info_vec == xor(padded_routing_info, pseudorandom_bytes)
    IN  copy_to_padded_routing_information(decrypted_routing_info_vec)

node_address_fixture == zeros(NODE_ADDRESS_LENGTH)

NoUnwrapped == [status |-> "None", error |-> "none",
                header |-> [shared_secret |-> 0,
                            routing_info |-> [enc_header |-> <<>>,
                                              header_integrity_hmac |-> <<>>]],
                hop |-> [host |-> ForwardHop(<<>>), delay |-> 0]]

\* The locals of unwrap_routing_information: the padded and the peeled buffer.
unwrap_padded(header) ==
    add_zero_padding_to_encrypted_routing_information(header.routing_info.enc_header)

unwrap_peeled(header, stream_cipher_key) ==
    decrypt_padded_routing_info(stream_cipher_key, unwrap_padded(header))

\* What unwrap_routing_information returns: a constant header and hop, unless
\* the decryption panicked.
unwrap_routing_information(header, stream_cipher_key) ==
    LET unwrapped == unwrap_peeled(header, stream_cipher_key)
    IN  IF unwrapped.status = "Panic"
        THEN [NoUnwrapped EXCEPT !.status = "Panic", !.error = unwrapped.error]
        ELSE [status |-> "Ok", error |-> "none",
              header |-> [shared_secret |-> 0,
                          routing_info |->
                              [enc_header |-> zeros(ROUTING_INFO_SIZE),
                               header_integrity_hmac |-> zeros(INTEGRITY_MAC_SIZE)]],
              hop |-> [host |-> ForwardHop(node_address_fixture), delay |-> 0]]

-----------------------------------------------------------------------------
(* Inputs *)

Messages == SeqsUpTo(InBytes, PAYLOAD_SIZE - SECURITY_PARAMETER - DESTINATION_ADDRESS_LENGTH + MaxExtra)
Destinations == SeqsOfLen(InBytes, DESTINATION_ADDRESS_LENGTH)
KeyLists == SeqsUpTo(Keys, MaxKeys)
ReceivedBuffers == SeqsUpTo(InBytes, PAYLOAD_SIZE + MaxExtra)
Profiles == {"debug", "release"}

NoArgs == [op |-> "none", message |-> <<>>, keys |-> <<>>, destination |-> <<>>,
           bytes |-> <<>>]

Fits(message, destination) ==
    Len(message) + Len(destination) + SECURITY_PARAMETER <= PAYLOAD_SIZE

RouteElements(n) ==
    {ForwardHop(a) : a \in SeqsOfLen(InBytes, n)} \cup {FinalHop(d) : d \in Destinations}

\* The keystream bytes past ROUTING_INFO_SIZE: what a header builder's filler
\* puts at the tail of an inner layer.
KeystreamTail(key) ==
    SubSeq(generate_pseudorandom_bytes(key, STREAM_CIPHER_INIT_VECTOR,
                                       STREAM_CIPHER_OUTPUT_LENGTH),
           ROUTING_INFO_SIZE + 1, ROUTING_INFO_SIZE + 3 * SECURITY_PARAMETER)

InnerTails ==
    {[i \in 1..(3 * SECURITY_PARAMETER) |-> b] : b \in InBytes}
        \cup {KeystreamTail(k) : k \in Keys}

\* Encrypted routing information of an inner layer: ROUTING_INFO_SIZE bytes.
InnerEncs ==
    {pre \o tail : pre \in SeqsOfLen(InBytes, TRUNCATED_ROUTING_INFO_SIZE), tail \in InnerTails}

InnerMacs == SeqsOfLen(InBytes, HEADER_INTEGRITY_MAC_SIZE)

NoHeaderArgs == [route_element |-> FinalHop(<<>>),
                 inner |-> NoEncapsulated, stream_key |-> 0, mac_key |-> 0]

NoUnwrapArgs == [header |-> NoUnwrapped.header, key |-> 0]

NoMacCheck == [status |-> "None", integrity_mac |-> <<>>, integrity_mac_key |-> 0,
               enc_routing_info |-> <<>>, result |-> FALSE]

\* A MAC with the low bit of byte i flipped (i = 0: unchanged).
FlipByte(mac, i) == [j \in 1..Len(mac) |-> IF j = i THEN BitXor(mac[j], 1) ELSE mac[j]]

-----------------------------------------------------------------------------
(* Payload actions *)

EncapsulateMessage ==
    /\ session = "idle"
    /\ \E m \in Messages, ks \in KeyLists, d \in Destinations, profile \in Profiles :
          /\ Fits(m, d) => profile = "debug"   \* the build only matters on underflow
          /\ payload' = encapsulate_message(m, ks, d, profile)
          /\ pargs' = [op |-> "encapsulate_message", message |-> m, keys |-> ks,
                       destination |-> d, bytes |-> <<>>]
    /\ session' = "payload"
    /\ UNCHANGED <<unwrapKeys, headerVars, nodeAddressLength>>

FromBytes ==
    /\ session = "idle"
    /\ \E b \in ReceivedBuffers :
          /\ payload' = from_bytes(b)
          /\ pargs' = [op |-> "from_bytes", message |-> <<>>, keys |-> <<>>,
                       destination |-> <<>>, bytes |-> b]
    /\ session' = "payload"
    /\ UNCHANGED <<unwrapKeys, headerVars, nodeAddressLength>>

\* A payload built for a route passes one relay per key of the route; a relay
\* that received a buffer (from_bytes) unwraps it once.
HopsLeft == IF pargs.op = "encapsulate_message" THEN Len(pargs.keys) ELSE 1

Unwrap ==
    /\ session = "payload"
    /\ payload.status = "Ok"
    /\ Len(unwrapKeys) < HopsLeft
    /\ \E k \in Keys :
          /\ payload' = unwrap(payload, k)
          /\ unwrapKeys' = Append(unwrapKeys, k)
    /\ UNCHANGED <<session, pargs, headerVars, nodeAddressLength>>

-----------------------------------------------------------------------------
(* Header actions *)

RoutingNew ==
    /\ session = "idle"
    /\ \E re \in RouteElements(nodeAddressLength), e \in InnerEncs, m \in InnerMacs :
          /\ routing' = RoutingInformation_new(re, Encapsulated(e, m))
          /\ hargs' = [route_element |-> re, inner |-> Encapsulated(e, m),
                       stream_key |-> 0, mac_key |-> 0]
    /\ session' = "header"
    /\ UNCHANGED <<payloadVars, encrypted, encapsulated, uargs, unwrapped_routing_info,
                   uout, macCheck, nodeAddressLength>>

Encrypt ==
    /\ session = "header"
    /\ routing.status = "Ok"
    /\ encrypted.status = "None"
    /\ \E k \in Keys :
          /\ encrypted' = encrypt(routing, k)
          /\ hargs' = [hargs EXCEPT !.stream_key = k]
    /\ UNCHANGED <<session, payloadVars, routing, encapsulated, uargs,
                   unwrapped_routing_info, uout, macCheck, nodeAddressLength>>

EncapsulateWithMac ==
    /\ session = "header"
    /\ encrypted.status = "Ok"
    /\ encapsulated.status = "None"
    /\ \E k \in Keys :
          /\ encapsulated' = encapsulate_with_mac(encrypted, k)
          /\ hargs' = [hargs EXCEPT !.mac_key = k]
    /\ UNCHANGED <<session, payloadVars, routing, encrypted, uargs,
                   unwrapped_routing_info, uout, macCheck, nodeAddressLength>>

\* A relay receives the layer just built, its MAC possibly damaged in one byte,
\* and unwraps it with some stream-cipher key.
UnwrapRoutingInformation ==
    /\ session = "header"
    /\ encapsulated.status = "Ok"
    /\ uout.status = "None"
    /\ \E k \in Keys, flip \in 0..INTEGRITY_MAC_SIZE :
          LET header == [shared_secret |-> 0,
                         routing_info |->
                             [enc_header |-> encapsulated.enc_routing_information,
                              header_integrity_hmac |->
                                  FlipByte(encapsulated.integrity_mac, flip)]]
          IN  /\ uargs' = [header |-> header, key |-> k]
              /\ unwrapped_routing_info' = unwrap_peeled(header, k).value
              /\ uout' = unwrap_routing_information(header, k)
    /\ UNCHANGED <<session, payloadVars, routing, encrypted, encapsulated, hargs,
                   macCheck, nodeAddressLength>>

\* The MACs a relay may be handed with the layer just built: the MAC itself,
\* the MAC with one byte damaged, and the all-zero MAC.
ArrivingMacs ==
    {FlipByte(encapsulated.integrity_mac, i) : i \in 0..INTEGRITY_MAC_SIZE}
        \cup {zeros(INTEGRITY_MAC_SIZE)}

CheckIntegrityMac ==
    /\ session = "header"
    /\ encapsulated.status = "Ok"
    /\ uout.status = "None"
    /\ \E mac \in ArrivingMacs, k \in Keys :
          macCheck' = [status |-> "Done", integrity_mac |-> mac, integrity_mac_key |-> k,
                       enc_routing_info |-> encapsulated.enc_routing_information,
                       result |-> check_integrity_mac(mac, k,
                                      encapsulated.enc_routing_information)]
    /\ session' = "mac_check"
    /\ UNCHANGED <<payloadVars, routing, encrypted, encapsulated, hargs, uargs,
                   unwrapped_routing_info, uout, nodeAddressLength>>

-----------------------------------------------------------------------------
(* Specifications *)

InitObjects ==
    /\ session = "idle"
    /\ payload = NoPayload
    /\ pargs = NoArgs
    /\ unwrapKeys = <<>>
    /\ routing = NoRouting
    /\ encrypted = NoEncrypted
    /\ encapsulated = NoEncapsulated
    /\ hargs = NoHeaderArgs
    /\ uargs = NoUnwrapArgs
    /\ unwrapped_routing_info = <<>>
    /\ uout = NoUnwrapped
    /\ macCheck = NoMacCheck

\* The crate as built: the node address has the length the assertion of
\* RoutingInformation::encrypt requires.
Init ==
    /\ InitObjects
    /\ nodeAddressLength = NODE_ADDRESS_LENGTH

\* The sizes under examination: the node address of spec section 3 beside it.
InitSizes ==
    /\ InitObjects
    /\ nodeAddressLength \in {SPEC_ADDR_SIZE, NODE_ADDRESS_LENGTH}

Next ==
    \/ EncapsulateMessage
    \/ FromBytes
    \/ Unwrap
    \/ RoutingNew
    \/ Encrypt
    \/ EncapsulateWithMac
    \/ UnwrapRoutingInformation
    \/ CheckIntegrityMac

Spec == Init /\ [][Next]_vars

\* The sizes concern the header layer only.
NextSizes ==
    \/ RoutingNew
    \/ Encrypt
    \/ EncapsulateWithMac
    \/ UnwrapRoutingInformation

SpecSizes == InitSizes /\ [][NextSizes]_vars

-----------------------------------------------------------------------------
(* Claims *)

ExpectedPlaintext(m, d) ==
    zeros(SECURITY_PARAMETER) \o d \o m
        \o zeros(PAYLOAD_SIZE - SECURITY_PARAMETER - Len(d) - Len(m))

Built == pargs.op = "encapsulate_message" /\ Len(pargs.keys) >= 1

\* C1: a message that fits, encapsulated under K1..Kn and then unwrapped with
\* K1, K2, ..., Kn in route order, yields 0^sigma || D || m || 0-padding.
C1_RoundTrip ==
    (/\ Built
     /\ Fits(pargs.message, pargs.destination)
     /\ unwrapKeys = pargs.keys)
        => payload = OkPayload(ExpectedPlaintext(pargs.message, pargs.destination))

C1_Witness ==
    /\ Built
    /\ Len(pargs.keys) = 3
    /\ pargs.keys[1] # pargs.keys[2]
    /\ Len(pargs.message) >= 1
    /\ unwrapKeys = pargs.keys
    /\ payload.content = ExpectedPlaintext(pargs.message, pargs.destination)

\* C4 (as claimed): building a payload succeeds iff the message fits, leaves no
\* inner padding when it fits exactly, and is otherwise rejected with the error
\* value PayloadTooLarge.
C4_Claim ==
    (Built /\ unwrapKeys = <<>>)
        => /\ payload.status = "Ok" <=> Fits(pargs.message, pargs.destination)
           /\ ~Fits(pargs.message, pargs.destination)
                  => payload = ErrPayload("PayloadTooLarge")
           /\ Len(pargs.message) + Len(pargs.destination) + SECURITY_PARAMETER = PAYLOAD_SIZE
                  => padding_length(pargs.message, pargs.destination, "debug") = 0

\* C5 (as claimed): every Payload value reachable through encapsulate_message,
\* from_bytes and unwrap holds exactly PAYLOAD_SIZE bytes.
C5_Claim == payload.status = "Ok" => Len(payload.content) = PAYLOAD_SIZE

\* C6: from_bytes(b) succeeds iff |b| >= PAYLOAD_SIZE; a shorter b gives
\* InvalidPayloadLengthError and no Payload; on success the content is b.
C6_FromBytes ==
    (pargs.op = "from_bytes" /\ unwrapKeys = <<>>)
        => /\ payload.status = "Ok" <=> Len(pargs.bytes) >= PAYLOAD_SIZE
           /\ Len(pargs.bytes) < PAYLOAD_SIZE
                  => payload = ErrPayload("InvalidPayloadLengthError")
           /\ payload.status = "Ok" => payload.content = pargs.bytes

C6_Witness ==
    /\ pargs.op = "from_bytes"
    /\ unwrapKeys = <<>>
    /\ Len(pargs.bytes) > PAYLOAD_SIZE
    /\ payload = OkPayload(pargs.bytes)

\* The hop whose routing keys built the layer is the one unwrapping it.
SameHop == uout.status # "None" /\ uargs.key = hargs.stream_key

\* C2 (as claimed): a header whose MAC does not verify under the hop's header
\* MAC key makes the unwrap fail with HeaderIntegrity, with no output header or hop.
C2_Claim ==
    (/\ uout.status # "None"
     /\ ~check_integrity_mac(uargs.header.routing_info.header_integrity_hmac,
                             hargs.mac_key, uargs.header.routing_info.enc_header))
        => /\ uout.status = "Err"
           /\ uout.error = "HeaderIntegrity"

\* C3 (as claimed): the returned header carries the inner layer's
\* ROUTING_INFO_SIZE bytes of the peeled buffer and the next_layer_mac parsed
\* from the peeled record, and the returned Hop the parsed next_node_address.
C3_Claim ==
    uout.status = "Ok"
        => /\ uout.header.routing_info.enc_header =
                  SubSeq(unwrapped_routing_info, 3 * SECURITY_PARAMETER + 1,
                         3 * SECURITY_PARAMETER + ROUTING_INFO_SIZE)
           /\ uout.header.routing_info.header_integrity_hmac =
                  SubSeq(unwrapped_routing_info, nodeAddressLength + 1,
                         nodeAddressLength + INTEGRITY_MAC_SIZE)
           /\ uout.hop.host.address = SubSeq(unwrapped_routing_info, 1, nodeAddressLength)

\* C7: RoutingInformation::new gives IsNotForwardHopError, and no routing
\* record, for every route element that is not a ForwardHop, and Ok for every
\* ForwardHop.
C7_NotForwardHop ==
    routing.status # "None"
        => /\ hargs.route_element.tag = "ForwardHop"
                  => /\ routing.status = "Ok"
                     /\ routing.node_address = hargs.route_element.address
           /\ hargs.route_element.tag # "ForwardHop"
                  => routing = ErrRouting("IsNotForwardHopError")

C7_Witness ==
    /\ hargs.route_element.tag = "FinalHop"
    /\ routing.status = "Err"
    /\ routing.error = "IsNotForwardHopError"

PeeledInner ==
    SubSeq(unwrapped_routing_info, 3 * SECURITY_PARAMETER + 1,
           3 * SECURITY_PARAMETER + ROUTING_INFO_SIZE)

InnerTail(e) == SubSeq(e, TRUNCATED_ROUTING_INFO_SIZE + 1, ROUTING_INFO_SIZE)

\* C8 (as claimed): peeling a layer with the key that built it recovers all
\* ROUTING_INFO_SIZE bytes of the inner encrypted routing information.
C8_Claim == SameHop => PeeledInner = hargs.inner.enc_routing_information

\* C8 (amended): peeling recovers the first TRUNCATED_ROUTING_INFO_SIZE bytes of
\* the inner layer followed by the keystream bytes ROUTING_INFO_SIZE ..
\* ROUTING_INFO_SIZE + 3 sigma, so the whole inner layer is recovered exactly
\* when its last 3 sigma bytes equal those keystream bytes.
C8_TruncationInvariance ==
    SameHop
        => /\ SubSeq(PeeledInner, 1, TRUNCATED_ROUTING_INFO_SIZE) =
                  SubSeq(hargs.inner.enc_routing_information, 1, TRUNCATED_ROUTING_INFO_SIZE)
           /\ InnerTail(PeeledInner) = KeystreamTail(uargs.key)
           /\ PeeledInner = hargs.inner.enc_routing_information
                  <=> InnerTail(hargs.inner.enc_routing_information) = KeystreamTail(uargs.key)

C8_Witness ==
    /\ SameHop
    /\ PeeledInner = hargs.inner.enc_routing_information
    /\ Len(PeeledInner) = ROUTING_INFO_SIZE

\* C9: new(hop, inner).encrypt(stream_key).encapsulate_with_mac(mac_key) has as
\* encrypted routing info (address || inner MAC || first
\* TRUNCATED_ROUTING_INFO_SIZE bytes of the inner encrypted routing info) XOR
\* the first ROUTING_INFO_SIZE keystream bytes, and as MAC the first sigma bytes
\* of the keyed hash of that encrypted routing info.
C9_ExpectedEnc ==
    LET ks == generate_pseudorandom_bytes(hargs.stream_key, STREAM_CIPHER_INIT_VECTOR,
                                          STREAM_CIPHER_OUTPUT_LENGTH)
        rec == hargs.route_element.address \o hargs.inner.integrity_mac
                   \o SubSeq(hargs.inner.enc_routing_information, 1,
                             TRUNCATED_ROUTING_INFO_SIZE)
    IN  [i \in 1..ROUTING_INFO_SIZE |-> BitXor(rec[i], ks[i])]

C9_LayerBytes ==
    /\ (routing.status = "Ok" /\ encrypted.status # "None") => encrypted.status = "Ok"
    /\ encapsulated.status = "Ok"
           => /\ encapsulated.enc_routing_information = C9_ExpectedEnc
              /\ encapsulated.integrity_mac =
                     SubSeq(compute_keyed_hmac(hargs.mac_key, C9_ExpectedEnc), 1,
                            SECURITY_PARAMETER)

C9_Witness ==
    /\ encapsulated.status = "Ok"
    /\ hargs.route_element.tag = "ForwardHop"
    /\ encapsulated.enc_routing_information = C9_ExpectedEnc
    /\ Len(encapsulated.integrity_mac) = SECURITY_PARAMETER
    /\ InnerTail(hargs.inner.enc_routing_information)
           # SubSeq(hargs.inner.enc_routing_information, 1, 3 * SECURITY_PARAMETER)

\* C10 (as claimed): with a node address of sigma bytes, a MAC of sigma bytes
\* and TRUNCATED_ROUTING_INFO_SIZE = ROUTING_INFO_SIZE - 3 sigma, the
\* concatenation has ROUTING_INFO_SIZE bytes, the assertion of encrypt holds
\* and the EncryptedRoutingInfo has ROUTING_INFO_SIZE bytes.
C10_Claim ==
    (/\ encrypted.status # "None"
     /\ Len(routing.node_address) = SPEC_ADDR_SIZE
     /\ Len(routing.header_integrity_mac) = SECURITY_PARAMETER
     /\ Len(routing.next_routing_information) = ROUTING_INFO_SIZE - 3 * SECURITY_PARAMETER)
        => /\ Len(concatenate_components(routing)) = ROUTING_INFO_SIZE
           /\ encrypted.status = "Ok"
           /\ Len(encrypted.value) = ROUTING_INFO_SIZE

\* C10 (amended): the concatenation has |address| + ROUTING_INFO_SIZE - 2 sigma
\* bytes; the assertion of encrypt holds, and the EncryptedRoutingInfo has
\* ROUTING_INFO_SIZE bytes, exactly when the node address has 2 sigma bytes;
\* with the sigma-byte address of spec section 3 the assertion fails.
C10_RecordLength ==
    encrypted.status # "None"
        => /\ Len(concatenate_components(routing)) =
                  Len(routing.node_address) + ROUTING_INFO_SIZE - 2 * SECURITY_PARAMETER
           /\ encrypted.status = "Ok"
                  <=> Len(routing.node_address) = 2 * SECURITY_PARAMETER
           /\ encrypted.status = "Ok" => Len(encrypted.value) = ROUTING_INFO_SIZE
           /\ Len(routing.node_address) = SPEC_ADDR_SIZE => encrypted.status = "Panic"

C10_Witness ==
    /\ encrypted.status = "Ok"
    /\ Len(routing.node_address) = 2 * SECURITY_PARAMETER
    /\ Len(concatenate_components(routing)) = ROUTING_INFO_SIZE
    /\ Len(encrypted.value) = ROUTING_INFO_SIZE

\* The plaintext routing buffer of the layer that was built.
C11_Plaintext ==
    hargs.route_element.address \o hargs.inner.integrity_mac
        \o SubSeq(hargs.inner.enc_routing_information, 1, TRUNCATED_ROUTING_INFO_SIZE)

\* C11: a ROUTING_INFO_SIZE-byte routing buffer XOR-encrypted with the first
\* ROUTING_INFO_SIZE keystream bytes, padded with 3 sigma zero bytes and given
\* to decrypt_padded_routing_info with the same key comes back as a buffer of
\* ROUTING_INFO_SIZE + 3 sigma bytes whose first ROUTING_INFO_SIZE bytes are
\* the original buffer.
C11_DecryptRecoversPlaintext ==
    SameHop
        => /\ Len(unwrapped_routing_info) = ROUTING_INFO_SIZE + 3 * SECURITY_PARAMETER
           /\ SubSeq(unwrapped_routing_info, 1, ROUTING_INFO_SIZE) = C11_Plaintext

C11_Witness ==
    /\ SameHop
    /\ Len(C11_Plaintext) = ROUTING_INFO_SIZE
    /\ \E i \in 1..ROUTING_INFO_SIZE : C11_Plaintext[i] # 0
    /\ encrypted.value # C11_Plaintext
    /\ SubSeq(unwrapped_routing_info, 1, ROUTING_INFO_SIZE) = C11_Plaintext

\* The header integrity MAC recomputed from a key and encrypted routing info:
\* the first sigma bytes of the keyed hash.
C12_Recomputed ==
    SubSeq(compute_keyed_hmac(macCheck.integrity_mac_key, macCheck.enc_routing_info),
           1, SECURITY_PARAMETER)

\* C12: check_integrity_mac(mac, key, enc_routing_info) is true iff mac is the
\* header integrity MAC recomputed from key and enc_routing_info, and false for
\* every other mac, in particular one that differs from it in a single byte.
C12_CheckIntegrityMac ==
    macCheck.status = "Done"
        => /\ macCheck.result <=> macCheck.integrity_mac = C12_Recomputed
           /\ (\E i \in 1..INTEGRITY_MAC_SIZE :
                   macCheck.integrity_mac = FlipByte(C12_Recomputed, i))
                  => ~macCheck.result

C12_Witness ==
    /\ macCheck.status = "Done"
    /\ macCheck.integrity_mac = FlipByte(C12_Recomputed, 1)
    /\ macCheck.integrity_mac_key = hargs.mac_key
    /\ ~macCheck.result

\* C13: whatever the encrypted routing info and the key, the trailing 3 sigma
\* bytes of decrypt_padded_routing_info(key, E || 0^(3 sigma)) are the keystream
\* bytes at positions ROUTING_INFO_SIZE .. ROUTING_INFO_SIZE + 3 sigma under
\* that key, hence the same for any two headers peeled with the same key.
C13_PaddingRevealsKeystream ==
    uout.status # "None"
        => /\ Len(unwrapped_routing_info) = ROUTING_INFO_SIZE + 3 * SECURITY_PARAMETER
           /\ \A i \in 1..(3 * SECURITY_PARAMETER) :
                  unwrapped_routing_info[ROUTING_INFO_SIZE + i] =
                      KeystreamByte(uargs.key, STREAM_CIPHER_INIT_VECTOR, ROUTING_INFO_SIZE + i)

C13_Witness ==
    /\ uout.status # "None"
    /\ uargs.key # hargs.stream_key
    /\ \E i \in 1..ROUTING_INFO_SIZE : uargs.header.routing_info.enc_header[i] # 0
    /\ \A i \in 1..(3 * SECURITY_PARAMETER) :
           unwrapped_routing_info[ROUTING_INFO_SIZE + i] =
               KeystreamByte(uargs.key, STREAM_CIPHER_INIT_VECTOR, ROUTING_INFO_SIZE + i)

\* The buffer c under the encryption layers of keys[i], keys[i-1], ..., keys[1],
\* applied in that order.
RECURSIVE C14_Layers(_, _, _)
C14_Layers(c, keys, i) ==
    IF i = 0 THEN c ELSE C14_Layers(LionessEncrypt(keys[i], c), keys, i - 1)

\* C14: encapsulate_message with an empty key list returns neither a Payload
\* nor an error value, it panics; with n >= 1 keys it applies exactly n
\* encryption layers, the last key first and the first key last.
C14_KeyList ==
    (pargs.op = "encapsulate_message" /\ unwrapKeys = <<>>)
        => /\ Len(pargs.keys) = 0
                  => /\ payload.status = "Panic"
                     /\ payload.content = <<>>
                     /\ payload.error = "The keys should be already initialized"
           /\ (Len(pargs.keys) >= 1 /\ Fits(pargs.message, pargs.destination))
                  => /\ payload.status = "Ok"
                     /\ payload.content =
                            C14_Layers(ExpectedPlaintext(pargs.message, pargs.destination),
                                       pargs.keys, Len(pargs.keys))

C14_Witness ==
    /\ pargs.op = "encapsulate_message"
    /\ pargs.keys = <<>>
    /\ Fits(pargs.message, pargs.destination)
    /\ payload.status = "Panic"
    /\ payload.error = "The keys should be already initialized"

====
